---- MODULE Spec2Model ----
(***************************************************************************)
(* carlescere/scheduler: the schedule kinds (recurrent, daily, weekly) and *)
(* their nextRun, the fluent builder (Every, At, Day, the weekday methods, *)
(* Seconds/Minutes/Hours) and the loop that Job.Run starts.                *)
(*                                                                         *)
(* Time is counted in whole seconds.  An instant is the number of seconds  *)
(* since local midnight of 1 January 2015; the local zone has a fixed      *)
(* offset.  time.Duration is a signed integer of DurBits bits (Go: 64 bits *)
(* of nanoseconds), so that a product of count and unit can leave the      *)
(* range as it can in the program.                                         *)
(***************************************************************************)
EXTENDS Integers, Sequences, FiniteSets, TLC

VARIABLES
    now,        \* the wall clock, time.Now()
    sched,      \* nextRun: the receiver (a recurrent, daily or weekly value)
    res,        \* nextRun: what the last call returned, [dur, err]
    at,         \* nextRun: the time.Now() the last call read
    prev,       \* nextRun: res and at of the call before the last
    calls,      \* nextRun: how many calls were made
    elapsed,    \* nextRun: how many times the clock was moved between calls
    build,      \* which of the two source files the program is built from
    job,        \* the Job: [fn, Quit, SkipWait, err, schedule]
    bpc,        \* where the caller's chain of builder calls is
    chain,      \* history: the builder calls made, in order
    lpc,        \* where the goroutine started by Run is
    next,       \* Run's variable next
    err,        \* Run's variable err
    timerAt,    \* the instant the channel of time.After(next) becomes ready
    quit,       \* the number of values in the buffer of the channel job.Quit
    quitBlocked, \* the senders blocked on job.Quit
    cancelReqs, \* how often a holder of the handle triggered the cancel signal
    fired,      \* how many times the loop ran "go j.fn()"
    running,    \* the invocations of j.fn in progress
    lpc2,       \* where the goroutine started by a second call of Run is
    next2,      \* the second call's variable next
    err2,       \* the second call's variable err
    timerAt2,   \* the instant the second goroutine's timer becomes ready
    stale,      \* the first goroutine's select holds a channel that job.Quit
                \* no longer names
    stopCause,  \* history: why the loop returned
    raced,      \* history: the timer was ready when the loop took the Quit case
    skipReq,    \* history: skip-wait was triggered during the current wait
    skipDue     \* history: the instant that wait's timer is due

nrVars == <<sched, res, at, prev, calls, elapsed>>
jobVars == <<build, job, bpc, chain>>
loopVars == <<lpc, next, err, timerAt, fired, running>>
chanVars == <<quit, quitBlocked, cancelReqs>>
histVars == <<stopCause, raced, skipReq, skipDue>>
run2Vars == <<lpc2, next2, err2, timerAt2>>
vars == <<now, nrVars, jobVars, loopVars, chanVars, histVars, run2Vars, stale>>

----------------------------------------------------------------------------
(* Bounds of the model *)

\* width of time.Duration in the model
DurBits == 21
\* calls of nextRun on one schedule value
MaxCalls == 2
\* builder calls between Every and Run
MaxChain == 3
\* the clock moves at most this often between calls of nextRun
MaxElapse == 1
\* the loop is followed for this many seconds after Run
MaxTime == 26
\* the loop dispatches the callback at most this often
MaxFired == 13
\* the holders of the handle trigger the cancel signal at most this often
MaxSends == 3
\* the clock starts on one of the days 0..MaxDay of the year (or a month's end)
MaxDay == 7

----------------------------------------------------------------------------
(* package time *)

Second == 1
Minute == 60 * Second
Hour == 60 * Minute
DaySeconds == 24 * Hour

RECURSIVE Pow2(_)
Pow2(n) == IF n = 0 THEN 1 ELSE 2 * Pow2(n - 1)

\* the largest and the smallest time.Duration
maxDuration == Pow2(DurBits - 1) - 1
minDuration == -Pow2(DurBits - 1)

\* a Duration product as the machine computes it: the low DurBits bits, signed
WrapDuration(x) == ((x - minDuration) % Pow2(DurBits)) + minDuration

\* time.Weekday
Sunday == 0
Monday == 1
Tuesday == 2
Wednesday == 3
Thursday == 4
Friday == 5
Saturday == 6
Weekdays == Sunday..Saturday

\* the year of the model's clock: 2015, not a leap year, 1 January a Thursday
ModelYear == 2015
DaysInYear == 365
daysBefore == <<0, 31, 59, 90, 120, 151, 181, 212, 243, 273, 304, 334, 365>>

\* Time.Date(): the (year, month, day) of an instant of the model's year
DateOf(t) ==
    LET yday == t \div DaySeconds
        m == CHOOSE k \in 1..12 : daysBefore[k] <= yday /\ yday < daysBefore[k + 1]
    IN  [year |-> ModelYear, month |-> m, day |-> yday - daysBefore[m] + 1]

\* Time.Weekday()
WeekdayOf(t) == ((t \div DaySeconds) + Thursday) % 7

\* time.Date(year, month, day, hour, min, sec, 0, time.Local): the fields are
\* added up, so a day, hour, minute or second outside its range carries over
GoDate(year, month, day, hour, min, sec) ==
    ((year - ModelYear) * DaysInYear + daysBefore[month] + (day - 1)) * DaySeconds
        + hour * Hour + min * Minute + sec * Second

\* Time.Before
Before(t, u) == t < u

\* Time.Sub: the difference, kept inside the range of time.Duration
Sub(t, u) ==
    IF t - u > maxDuration THEN maxDuration
    ELSE IF t - u < minDuration THEN minDuration
    ELSE t - u

----------------------------------------------------------------------------
(* The schedule kinds *)

NoError == "nil"
ErrZeroTime == "Cannot schedule with 0 time"

NilSchedule == [kind |-> "nil"]
NoResult == [dur |-> 0, err |-> "none yet"]
recurrent(u, p) == [kind |-> "recurrent", units |-> u, period |-> p]
daily(h, m, s) == [kind |-> "daily", hour |-> h, min |-> m, sec |-> s]
weekly(wd, dd) == [kind |-> "weekly", day |-> wd, d |-> dd]

\* recurrentNextRun with && for ||
M_recurrentNextRun(r) ==
    IF r.units = 0 /\ r.period = 0
    THEN [dur |-> 0, err |-> ErrZeroTime]
    ELSE [dur |-> WrapDuration(r.units * r.period), err |-> NoError]

\* func (r recurrent) nextRun()
recurrentNextRun(r) ==
    IF r.units = 0 \/ r.period = 0
    THEN [dur |-> 0, err |-> ErrZeroTime]
    ELSE [dur |-> WrapDuration(r.units * r.period), err |-> NoError]

\* StillAhead with "not after" for "before"
M_StillAhead(t, date) == t <= date

\* the comparison daily.nextRun and weekly.nextRun make: now.Before(date)
StillAhead(t, date) == Before(t, date)

\* func (d daily) nextRun(), with time.Now() = t
dailyNextRun(d, t) ==
    LET ymd == DateOf(t)
        date == GoDate(ymd.year, ymd.month, ymd.day, d.hour, d.min, d.sec)
        date1 == GoDate(ymd.year, ymd.month, ymd.day + 1, d.hour, d.min, d.sec)
    IN  IF StillAhead(t, date)
        THEN [dur |-> Sub(date, t), err |-> NoError]
        ELSE [dur |-> Sub(date1, t), err |-> NoError]

\* NormDays without the step that adds 7 to a negative difference
M_NormDays(numDays) == numDays

\* weekly.nextRun: the days to add when today is not the target weekday
NormDays(numDays) == IF numDays < 0 THEN numDays + 7 ELSE numDays

\* func (w weekly) nextRun(), with time.Now() = t
weeklyNextRun(w, t) ==
    LET ymd == DateOf(t)
        numDays == w.day - WeekdayOf(t)
        today == GoDate(ymd.year, ymd.month, ymd.day, w.d.hour, w.d.min, w.d.sec)
        later(n) == GoDate(ymd.year, ymd.month, ymd.day + n, w.d.hour, w.d.min, w.d.sec)
    IN  IF numDays = 0
        THEN IF StillAhead(t, today)
             THEN [dur |-> Sub(today, t), err |-> NoError]
             ELSE [dur |-> Sub(later(7), t), err |-> NoError]
        ELSE [dur |-> Sub(later(NormDays(numDays)), t), err |-> NoError]

\* scheduled.nextRun(): the dispatch on the schedule's dynamic type
nextRun(s, t) ==
    CASE s.kind = "recurrent" -> recurrentNextRun(s)
      [] s.kind = "daily" -> dailyNextRun(s, t)
      [] s.kind = "weekly" -> weeklyNextRun(s, t)

----------------------------------------------------------------------------
(* The Job and the loop Run starts *)

\* no goroutine, no channel, nothing sent
NoLoop ==
    /\ lpc = "none" /\ next = 0 /\ err = NoError /\ timerAt = 0
    /\ fired = 0 /\ running = 0
    /\ quit = 0 /\ quitBlocked = 0 /\ cancelReqs = 0
    /\ stopCause = "none" /\ raced = FALSE /\ skipReq = FALSE /\ skipDue = 0
    /\ lpc2 = "none" /\ next2 = 0 /\ err2 = NoError /\ timerAt2 = 0
    /\ stale = FALSE

\* no call of nextRun outside the loop
NoCalls ==
    /\ sched = NilSchedule /\ res = NoResult /\ at = 0 /\ calls = 0 /\ elapsed = 0
    /\ prev = [res |-> NoResult, at |-> 0]

\* Run is called on Monday 5 January 2015 at 00:00:00
RunStart == 4 * DaySeconds

\* the two source files: scheduler.go declares Quit and SkipWait receive-only
\* (<-chan bool), the older file declares Quit chan bool and has no SkipWait
Builds == {"scheduler.go", "unnamed/part_000"}

\* a holder of the handle can send on job.Quit
QuitSendable == build = "unnamed/part_000"

\* the Job has the field SkipWait and the select its case
HasSkipWait == build = "scheduler.go"

\* make(chan bool, 1)
QuitCap == 1

\* &Job{}
ZeroJob == [fn |-> "nil", Quit |-> "nil", SkipWait |-> "nil", err |-> NoError,
            schedule |-> NilSchedule]

\* Run, up to the go statement: the channel is made and the callback stored;
\* SkipWait is left as it is
Started(j) == [j EXCEPT !.Quit = "chan", !.fn = "f"]

\* the loop has not returned
Running == lpc \in {"compute", "select"}

\* time.After(0): the timer has expired as soon as it is made
M_TimerReady == TRUE

\* the channel of time.After(next) holds the expiry
TimerReady == now >= timerAt

\* the cases of the select that can proceed
ReadyCases ==
    {c \in {"quit"} : job.Quit # "nil" /\ quit > 0 /\ ~stale}
        \cup {c \in {"skip"} : HasSkipWait /\ job.SkipWait # "nil" /\ skipReq}
        \cup {c \in {"timer"} : TimerReady}

\* OnError with continue for return: the loop evaluates the schedule again
M_OnError == "compute"

\* if err != nil { log.Println(...); return }
OnError == "stopped"

\* the loop's first statements: next, err = j.schedule.nextRun(); on an error
\* it returns, otherwise it enters the select, where time.After(next) starts
\* and j.Quit is read.  After a second call of Run that read races with the
\* call's assignment to j.Quit and yields the old channel or the new one
LoopCompute ==
    /\ lpc = "compute"
    /\ IF job.schedule.kind = "nil"
       THEN /\ lpc' = "panic"
            /\ UNCHANGED <<next, err, timerAt, stopCause, stale>>
       ELSE LET r == nextRun(job.schedule, now)
            IN  /\ next' = r.dur
                /\ err' = r.err
                /\ IF r.err # NoError
                   THEN /\ lpc' = OnError
                        /\ stopCause' = "error"
                        /\ UNCHANGED <<timerAt, stale>>
                   ELSE /\ lpc' = "select"
                        /\ timerAt' = now + r.dur
                        /\ stale' \in (IF lpc2 = "none" THEN {FALSE} ELSE BOOLEAN)
                        /\ UNCHANGED stopCause
    /\ UNCHANGED <<now, nrVars, run2Vars, jobVars, fired, running, chanVars, raced, skipReq, skipDue>>

\* OnQuit with break for return: the select is left, the loop is not
M_OnQuit == "compute"

\* case <-j.Quit: return
OnQuit == "stopped"

\* j.fn() for go j.fn(): the loop's goroutine is inside the callback
M_AfterDispatch == "calling"

\* go j.fn(): the callback runs in a goroutine of its own and the loop goes
\* back to its first statement
AfterDispatch == "compute"

\* the select takes case c, one of those that can proceed
SelectCase(c) ==
    /\ lpc = "select"
    /\ c \in ReadyCases
    /\ IF c = "quit"
       THEN /\ quit' = quit - 1
            /\ lpc' = OnQuit
            /\ stopCause' = "cancel"
            /\ raced' = TimerReady
            /\ UNCHANGED <<fired, running>>
       ELSE \* case <-j.SkipWait, case <-time.After(next): go j.fn()
            /\ fired < MaxFired
            /\ fired' = fired + 1
            /\ running' = running + 1
            /\ lpc' = AfterDispatch
            /\ UNCHANGED <<quit, stopCause, raced>>
    /\ skipReq' = FALSE
    /\ UNCHANGED <<now, nrVars, run2Vars, stale, jobVars, next, err, timerAt, quitBlocked, cancelReqs, skipDue>>

LoopSelect == \E c \in {"quit", "skip", "timer"} : SelectCase(c)

\* an invocation of the callback returns
FnReturn ==
    /\ running > 0
    /\ running' = running - 1
    /\ UNCHANGED <<now, nrVars, run2Vars, stale, jobVars, lpc, next, err, timerAt, fired, chanVars, histVars>>

\* a holder of the handle triggers the cancel signal: job.Quit <- true.  The
\* send is refused where the field is receive-only; otherwise the value goes
\* into the buffer, or the sender blocks while the buffer is full
CancelTrigger ==
    /\ lpc # "none" /\ lpc # "panic"
    /\ cancelReqs < MaxSends
    /\ cancelReqs' = cancelReqs + 1
    /\ IF ~QuitSendable
       THEN UNCHANGED <<quit, quitBlocked>>
       ELSE IF quit < QuitCap
            THEN quit' = quit + 1 /\ UNCHANGED quitBlocked
            ELSE quitBlocked' = quitBlocked + 1 /\ UNCHANGED quit
    /\ UNCHANGED <<now, nrVars, run2Vars, stale, jobVars, loopVars, histVars>>

\* a sender blocked on job.Quit goes on once the buffer has room
CancelUnblock ==
    /\ quitBlocked > 0
    /\ quit < QuitCap
    /\ quit' = quit + 1
    /\ quitBlocked' = quitBlocked - 1
    /\ UNCHANGED <<now, nrVars, run2Vars, stale, jobVars, loopVars, cancelReqs, histVars>>

\* a holder of the handle triggers the skip-wait signal.  job.SkipWait is
\* receive-only and Run never makes the channel, so nothing reaches the loop
SkipTrigger ==
    /\ HasSkipWait
    /\ lpc = "select"
    /\ next > 0
    /\ ~TimerReady
    /\ ~skipReq
    /\ skipReq' = TRUE
    /\ skipDue' = timerAt
    /\ UNCHANGED <<now, nrVars, run2Vars, stale, jobVars, loopVars, chanVars, stopCause, raced>>

\* the handle's Run is called a second time, at a moment when no cancel
\* signal waits in the channel: j.Quit is replaced by a new channel, j.fn by
\* the new callback and a second goroutine runs the loop on the same Job.  A
\* select the first goroutine is waiting in keeps the channel it has read
Rerun ==
    /\ bpc = "run"
    /\ lpc \in {"compute", "select", "stopped"}
    /\ lpc2 = "none"
    /\ quit = 0 /\ quitBlocked = 0
    /\ job.err = NoError
    /\ job' = Started(job)
    /\ chain' = Append(chain, [op |-> "Run", arg |-> <<>>])
    /\ quit' = 0
    /\ lpc2' = "compute"
    /\ stale' = (lpc = "select")
    /\ UNCHANGED <<now, nrVars, build, bpc, loopVars, quitBlocked, cancelReqs, histVars,
                   next2, err2, timerAt2>>

\* the cases the second goroutine's select can proceed with; it reads j.Quit
\* after the second Run has set it
ReadyCases2 ==
    {c \in {"quit"} : job.Quit # "nil" /\ quit > 0}
        \cup {c \in {"timer"} : now >= timerAt2}

\* the second goroutine: the statements of LoopCompute
Loop2Compute ==
    /\ lpc2 = "compute"
    /\ LET r == nextRun(job.schedule, now)
       IN  /\ next2' = r.dur
           /\ err2' = r.err
           /\ IF r.err # NoError
              THEN lpc2' = OnError /\ UNCHANGED timerAt2
              ELSE lpc2' = "select" /\ timerAt2' = now + r.dur
    /\ UNCHANGED <<now, nrVars, jobVars, loopVars, chanVars, histVars, stale>>

\* the second goroutine: the select
Select2Case(c) ==
    /\ lpc2 = "select"
    /\ c \in ReadyCases2
    /\ IF c = "quit"
       THEN /\ quit' = quit - 1
            /\ lpc2' = OnQuit
            /\ UNCHANGED <<fired, running>>
       ELSE /\ fired < MaxFired
            /\ fired' = fired + 1
            /\ running' = running + 1
            /\ lpc2' = AfterDispatch
            /\ UNCHANGED quit
    /\ UNCHANGED <<now, nrVars, jobVars, lpc, next, err, timerAt, quitBlocked, cancelReqs,
                   histVars, next2, err2, timerAt2, stale>>

Loop2Select == \E c \in {"quit", "timer"} : Select2Case(c)

\* a second passes; the loop's goroutine runs as soon as it can, so no time
\* passes while it has a step to take
Tick ==
    /\ lpc \in {"select", "stopped"}
    /\ lpc = "select" => ReadyCases = {}
    /\ lpc2 \in {"none", "select", "stopped"}
    /\ lpc2 = "select" => ReadyCases2 = {}
    /\ now < RunStart + MaxTime
    /\ now' = now + 1
    /\ UNCHANGED <<nrVars, run2Vars, stale, jobVars, loopVars, chanVars, histVars>>

----------------------------------------------------------------------------
(* The builder *)

ErrTooMany == "Too many arguments in Every"
ErrChaining == "Bad function chaining"

\* func Every(times ...time.Duration) *Job
Every(times) ==
    CASE Len(times) = 0 -> ZeroJob
      [] Len(times) = 1 -> [ZeroJob EXCEPT !.schedule = recurrent(times[1], 0)]
      [] OTHER -> [ZeroJob EXCEPT !.err = ErrTooMany]

\* strings are sequences of one-character strings
Digits == <<"0", "1", "2", "3", "4", "5", "6", "7", "8", "9">>
IsDigit(c) == \E k \in 1..10 : Digits[k] = c
DigitValue(c) == (CHOOSE k \in 1..10 : Digits[k] = c) - 1

\* strings.Split(str, ":")
RECURSIVE SplitColon(_)
SplitColon(str) ==
    IF \A k \in 1..Len(str) : str[k] # ":"
    THEN <<str>>
    ELSE LET k == CHOOSE i \in 1..Len(str) :
                      str[i] = ":" /\ \A i2 \in 1..(i - 1) : str[i2] # ":"
         IN  <<SubSeq(str, 1, k - 1)>> \o SplitColon(SubSeq(str, k + 1, Len(str)))

RECURSIVE DecimalValue(_)
DecimalValue(ds) ==
    IF ds = <<>> THEN 0
    ELSE 10 * DecimalValue(SubSeq(ds, 1, Len(ds) - 1)) + DigitValue(ds[Len(ds)])

\* n, _ = strconv.Atoi(chunk): an optional sign and decimal digits; anything
\* else is a syntax error, which leaves 0
Atoi(chunk) ==
    LET signed == chunk # <<>> /\ chunk[1] \in {"+", "-"}
        ds == IF signed THEN Tail(chunk) ELSE chunk
    IN  IF ds = <<>> \/ \E k \in 1..Len(ds) : ~IsDigit(ds[k])
        THEN 0
        ELSE IF signed /\ chunk[1] = "-" THEN -DecimalValue(ds) ELSE DecimalValue(ds)

\* func parseTime(str string) (hour, min, sec int)
parseTime(str) ==
    LET chunks == SplitColon(str)
    IN  CASE Len(chunks) = 1 ->
                [hour |-> Atoi(chunks[1]), min |-> 0, sec |-> 0]
          [] Len(chunks) = 2 ->
                [hour |-> Atoi(chunks[1]), min |-> Atoi(chunks[2]), sec |-> 0]
          [] Len(chunks) = 3 ->
                [hour |-> Atoi(chunks[1]), min |-> Atoi(chunks[2]),
                 sec |-> Atoi(chunks[3])]
          [] OTHER -> [hour |-> 0, min |-> 0, sec |-> 0]

\* func (j *Job) At(hourTime string) *Job
At(j, hourTime) ==
    IF j.err # NoError THEN j
    ELSE LET t == parseTime(hourTime)
         IN  CASE j.schedule.kind = "daily" ->
                    [j EXCEPT !.schedule = daily(t.hour, t.min, t.sec)]
               [] j.schedule.kind = "weekly" ->
                    [j EXCEPT !.schedule.d = daily(t.hour, t.min, t.sec)]
               [] OTHER -> [j EXCEPT !.err = ErrChaining]

\* func (j *Job) dayOfWeek(d time.Weekday) *Job
dayOfWeek(j, d) ==
    [j EXCEPT !.err = IF j.schedule # NilSchedule THEN ErrChaining ELSE @,
              !.schedule = weekly(Monday, daily(0, 0, 0))]

\* the weekday each of the seven methods passes to dayOfWeek
MethodDay ==
    [Monday |-> Monday, Tuesday |-> Tuesday, Wednesday |-> Wednesday,
     Thursday |-> Thursday, Friday |-> Friday, Saturday |-> Saturday,
     Sunday |-> Sunday]
WeekdayMethods == DOMAIN MethodDay

\* Day that starts from a clean error flag
M_Day(j) ==
    [j EXCEPT !.err = IF j.schedule # NilSchedule THEN ErrChaining ELSE NoError,
              !.schedule = daily(0, 0, 0)]

\* func (j *Job) Day() *Job
Day(j) ==
    [j EXCEPT !.err = IF j.schedule # NilSchedule THEN ErrChaining ELSE @,
              !.schedule = daily(0, 0, 0)]

\* func (j *Job) timeOfDay(d time.Duration) *Job, where the type assertion
\* j.schedule.(recurrent) holds
timeOfDay(j, d) ==
    IF j.err # NoError THEN j ELSE [j EXCEPT !.schedule.period = d]

\* the type assertion j.schedule.(recurrent) of timeOfDay panics
timeOfDayPanics(j) == j.err = NoError /\ j.schedule.kind # "recurrent"

\* the unit each of Seconds, Minutes, Hours passes to timeOfDay
MethodUnit == [Seconds |-> Second, Minutes |-> Minute, Hours |-> Hour]
UnitMethods == DOMAIN MethodUnit

\* the arguments tried
EveryArgs == {<<>>, <<0>>, <<5>>, <<300>>, <<5, 7>>}
TimeStrings ==
    {<<"0", "8", ":", "3", "0">>,
     <<"8">>,
     <<"2", "3", ":", "5", "9", ":", "5", "9">>,
     <<"2", "5", ":", "6", "1", ":", "6", "1">>,
     <<"-", "1", ":", "x">>,
     <<"1", ":", "2", ":", "3", ":", "4">>,
     <<>>}

Call(op, arg) == [op |-> op, arg |-> arg]
Chaining == bpc = "chain" /\ Len(chain) <= MaxChain

CallEvery ==
    /\ bpc = "start"
    /\ \E times \in EveryArgs :
          /\ job' = Every(times)
          /\ chain' = <<Call("Every", times)>>
    /\ bpc' = "chain"
    /\ UNCHANGED <<now, nrVars, run2Vars, stale, build, loopVars, chanVars, histVars>>

CallAt ==
    /\ Chaining
    /\ \E str \in TimeStrings :
          /\ job' = At(job, str)
          /\ chain' = Append(chain, Call("At", str))
    /\ UNCHANGED <<now, nrVars, run2Vars, stale, build, bpc, loopVars, chanVars, histVars>>

CallDay ==
    /\ Chaining
    /\ job' = Day(job)
    /\ chain' = Append(chain, Call("Day", <<>>))
    /\ UNCHANGED <<now, nrVars, run2Vars, stale, build, bpc, loopVars, chanVars, histVars>>

\* Monday(), ..., Sunday()
CallWeekday ==
    /\ Chaining
    /\ \E m \in WeekdayMethods :
          /\ job' = dayOfWeek(job, MethodDay[m])
          /\ chain' = Append(chain, Call(m, <<>>))
    /\ UNCHANGED <<now, nrVars, run2Vars, stale, build, bpc, loopVars, chanVars, histVars>>

\* Seconds(), Minutes(), Hours()
CallUnit ==
    /\ Chaining
    /\ \E m \in UnitMethods :
          /\ chain' = Append(chain, Call(m, <<>>))
          /\ IF timeOfDayPanics(job)
             THEN bpc' = "panic" /\ UNCHANGED job
             ELSE job' = timeOfDay(job, MethodUnit[m]) /\ UNCHANGED bpc
    /\ UNCHANGED <<now, nrVars, run2Vars, stale, build, loopVars, chanVars, histVars>>

\* func (j *Job) Run(f func()) (*Job, error)
CallRun ==
    /\ bpc = "chain"
    /\ chain' = Append(chain, Call("Run", <<>>))
    /\ IF job.err # NoError
       THEN /\ bpc' = "error"
            /\ UNCHANGED <<job, lpc, quit>>
       ELSE /\ bpc' = "run"
            /\ job' = Started(job)
            /\ quit' = 0
            /\ lpc' = "compute"
    /\ UNCHANGED <<now, nrVars, run2Vars, stale, build, next, err, timerAt, fired, running,
                   quitBlocked, cancelReqs, histVars>>

InitBuild ==
    /\ build \in Builds
    /\ job = ZeroJob
    /\ bpc = "start"
    /\ chain = <<>>
    /\ now = RunStart
    /\ NoLoop
    /\ NoCalls

NextBuild ==
    \/ CallEvery
    \/ CallAt
    \/ CallDay
    \/ CallWeekday
    \/ CallUnit
    \/ CallRun
    \/ LoopCompute

SpecBuild == InitBuild /\ [][NextBuild]_vars

\* the call chain is Every() with no argument, one weekday method m, and then
\* nothing but At
FreshWeekdayChain(m) ==
    /\ Len(chain) >= 2
    /\ chain[1] = Call("Every", <<>>)
    /\ chain[2] = Call(m, <<>>)
    /\ \A k \in 3..Len(chain) : chain[k].op = "At"

\* C10: each of the seven weekday methods, called on a fresh Every() job,
\* leaves a weekly schedule whose day is the day the method names, with no
\* error, and a following At keeps that day.
C10_WeekdayMethodSetsItsDay ==
    \A m \in WeekdayMethods :
        FreshWeekdayChain(m) =>
            /\ job.err = NoError
            /\ job.schedule.kind = "weekly"
            /\ job.schedule.day = MethodDay[m]

\* the builder call being made in this step is one the builder flags: Every
\* with more than one argument, Day or a weekday method on a job that has a
\* schedule, At on a job that is neither daily nor weekly
FlaggedCall ==
    /\ Len(chain') = Len(chain) + 1
    /\ LET c == chain'[Len(chain')]
       IN  \/ c.op = "Every" /\ Len(c.arg) > 1
           \/ c.op \in {"Day"} \cup WeekdayMethods /\ job.schedule # NilSchedule
           \/ c.op = "At" /\ job.schedule.kind \notin {"daily", "weekly"}

\* C12: a builder call that the builder flags leaves the job's error set; no
\* later builder call clears a set error; Run on a job whose error is set
\* returns the error and no handle, makes no channel, stores no callback and
\* starts no loop, so that the callback is never dispatched.
C12_ConfigErrorSticksUntilRun ==
    /\ [][FlaggedCall => job'.err # NoError]_vars
    /\ [][job.err # NoError =>
             /\ job'.err # NoError
             /\ bpc' \in {"chain", "error"}
             /\ (chain'[Len(chain')].op = "Run" => bpc' = "error")]_vars
    /\ [](bpc = "error" =>
             /\ job.err # NoError
             /\ job.Quit = "nil" /\ job.SkipWait = "nil" /\ job.fn = "nil"
             /\ lpc = "none" /\ fired = 0 /\ running = 0)

C12_Witness ==
    /\ bpc = "error"
    /\ Len(chain) >= 4
    /\ chain[1].op = "Every" /\ Len(chain[1].arg) = 2
    /\ chain[Len(chain)].op = "Run"
    /\ job.schedule # NilSchedule
    /\ job.err = ErrChaining

\* the chain has a call that configures a daily or weekly schedule and a call
\* that sets the unit of an interval, in either order
MixedChain ==
    \E i, k \in 1..Len(chain) :
        /\ chain[i].op \in {"Day", "At"} \cup WeekdayMethods
        /\ chain[k].op \in UnitMethods

\* C13: a chain that mixes Day, a weekday method or At with Seconds, Minutes
\* or Hours, in either order, has the job's error set; the program has not
\* aborted and Run has not accepted the job.
C13_MixedChainIsConfigError ==
    MixedChain => (job.err # NoError /\ bpc \in {"chain", "error"})

\* C20: no chain of builder calls aborts the program, in the builder or in
\* the loop; when Run has returned an error nothing was started, and when it
\* has started the loop the job's schedule is an interval, daily or weekly.
C20_RunStartsOnlyWithSchedule ==
    /\ bpc # "panic" /\ lpc # "panic"
    /\ bpc = "error" => (lpc = "none" /\ job.Quit = "nil")
    /\ bpc = "run" => job.schedule.kind \in {"recurrent", "daily", "weekly"}

\* the schedules of the jobs whose loop is followed: every two seconds, every
\* second, Every(0).Seconds(), Every(5) with no unit, two products that leave
\* the range of time.Duration, daily at 00:00:02, Mondays at 00:00:03
RunSchedules ==
    {recurrent(2, Second), recurrent(1, Second), recurrent(0, Second),
     recurrent(5, 0), recurrent(300, Hour), recurrent(131072, Hour),
     daily(0, 0, 2), weekly(Monday, daily(0, 0, 3))}

\* the state when Run has returned the handle
Init ==
    /\ build \in Builds
    /\ job \in {Started([ZeroJob EXCEPT !.schedule = s]) : s \in RunSchedules}
    /\ bpc = "run"
    /\ chain = <<>>
    /\ now = RunStart
    /\ lpc = "compute" /\ next = 0 /\ err = NoError /\ timerAt = 0
    /\ fired = 0 /\ running = 0
    /\ quit = 0 /\ quitBlocked = 0 /\ cancelReqs = 0
    /\ stopCause = "none" /\ raced = FALSE /\ skipReq = FALSE /\ skipDue = 0
    /\ lpc2 = "none" /\ next2 = 0 /\ err2 = NoError /\ timerAt2 = 0
    /\ stale = FALSE
    /\ NoCalls

Next ==
    \/ LoopCompute
    \/ LoopSelect
    \/ FnReturn
    \/ CancelTrigger
    \/ CancelUnblock
    \/ SkipTrigger
    \/ Tick

Spec == Init /\ [][Next]_vars

\* the loop with a holder of the handle that may call Run a second time
NextRerun ==
    \/ Next
    \/ Rerun
    \/ Loop2Compute
    \/ Loop2Select

\* the jobs whose handle is run twice: every two seconds, Every(0).Seconds(),
\* Mondays at 00:00:03
RerunSchedules ==
    {recurrent(2, Second), recurrent(0, Second), weekly(Monday, daily(0, 0, 3))}

InitRerun == Init /\ job.schedule \in RerunSchedules

SpecRerun == InitRerun /\ [][NextRerun]_vars

\* the goroutine of the loop is scheduled again and again, and a select that
\* is offered a ready Quit case again and again takes it in the end (Go picks
\* among the ready cases uniformly at random)
SpecFair ==
    Spec /\ WF_vars(LoopCompute) /\ SF_vars(SelectCase("quit"))

\* the loop's goroutine is scheduled again and again, whatever its next step
\* is, and time goes on
SpecLive ==
    Spec /\ WF_vars(LoopCompute) /\ WF_vars(LoopSelect) /\ WF_vars(Tick)

----------------------------------------------------------------------------
(* The loop: properties *)

\* C1: once the loop has taken the Quit case of its select it has returned
\* and never dispatches the callback again, not in the step that takes the
\* case (whether or not the timer was ready too) and not in any later step.
C1_NoFiringOnceCancelObserved ==
    [][stopCause' = "cancel" => (lpc' = "stopped" /\ fired' = fired)]_vars

C1_Witness ==
    /\ stopCause = "cancel" /\ raced
    /\ lpc = "stopped"
    /\ fired > 0
    /\ now > timerAt

\* C2: at a select where a value is pending on job.Quit the loop does not
\* dispatch the callback, whatever else is ready: cancellation comes first.
\* Stated for the waits of a positive duration, where the timer's expiry is
\* the end of a real wait.
C2_CancelTakesPrecedence ==
    [][(lpc = "select" /\ quit > 0 /\ next > 0) => fired' = fired]_vars

\* C3: when skip-wait is triggered while the loop waits for a duration
\* d > 0, the callback is dispatched before d has elapsed.
C3_SkipWaitFiresBeforeTimer == skipReq => now < skipDue

\* C4: a caller that triggers the cancel or the skip-wait signal never
\* blocks, in every state of the loop and however often it triggers.
C4_TriggerNeverBlocks == quitBlocked = 0

\* C5: the holder of the handle can trigger the cancel signal: every trigger
\* puts the signal in front of the loop (in the channel, or with a sender
\* about to put it there) or has been observed by the loop, which stops.
C5_HolderCanCancel ==
    cancelReqs > 0 => (quit > 0 \/ quitBlocked > 0 \/ stopCause = "cancel")

\* the job's schedule is an interval with a zero count or a zero unit
Malformed ==
    /\ job.schedule.kind = "recurrent"
    /\ (job.schedule.units = 0 \/ job.schedule.period = 0)

\* C11: a job run with an interval of zero count or zero unit: Run has
\* returned the handle, the callback is never dispatched, the loop's first
\* evaluation of the schedule fails and the loop returns, it never evaluates
\* the schedule again, and the goroutine does not panic.
C11_MalformedIntervalStopsAtOnce ==
    /\ [](Malformed =>
            /\ bpc = "run" /\ job.Quit = "chan"
            /\ fired = 0 /\ running = 0
            /\ \/ lpc = "compute" /\ err = NoError /\ stopCause = "none"
               \/ lpc = "stopped" /\ err = ErrZeroTime /\ stopCause = "error"
            /\ next = 0 /\ timerAt = 0)
    /\ [][(Malformed /\ lpc = "stopped") =>
             (lpc' = "stopped" /\ err' = err /\ fired' = fired)]_vars

C11_Witness ==
    /\ Malformed
    /\ lpc = "stopped" /\ stopCause = "error" /\ err = ErrZeroTime
    /\ now > RunStart
    /\ cancelReqs > 0
    /\ fired = 0

\* the job's schedule is an interval of a positive count and unit whose
\* product is in the range of time.Duration
ValidInterval ==
    /\ job.schedule.kind = "recurrent"
    /\ job.schedule.units > 0 /\ job.schedule.period > 0
    /\ job.schedule.units * job.schedule.period <= maxDuration

\* the wait of such a job, and the time since Run
Wait == job.schedule.units * job.schedule.period
SinceRun == now - RunStart

\* the dispatches the horizon has room for
Reachable ==
    IF MaxTime \div Wait < MaxFired THEN MaxTime \div Wait ELSE MaxFired

\* C14: a job with a valid interval that nobody cancels: its loop never
\* returns, each dispatch comes at the end of one more whole wait of
\* count * unit (so with a wait of 2 there are at least 10 dispatches once 25
\* have elapsed), the number of dispatches goes up by one at a time and never
\* down, and under fair scheduling it passes every number the horizon allows.
C14_ValidIntervalFiresForever ==
    /\ []((ValidInterval /\ cancelReqs = 0) =>
            /\ lpc \in {"compute", "select"}
            /\ fired * Wait <= SinceRun
            /\ SinceRun <= (fired + 1) * Wait
            /\ (Wait = 2 * Second /\ SinceRun >= 25 * Second) => fired >= 10)
    /\ [][(ValidInterval /\ cancelReqs = 0) =>
             /\ fired' >= fired
             /\ fired' # fired =>
                    (fired' = fired + 1 /\ SinceRun = fired' * Wait)]_vars
    /\ <>(~ValidInterval \/ cancelReqs > 0 \/ fired >= Reachable)

C14_Witness ==
    /\ ValidInterval /\ cancelReqs = 0
    /\ Wait = 2 * Second
    /\ SinceRun >= 25 * Second
    /\ fired >= 10
    /\ lpc = "select"

\* C17: the loop does not wait for the callback: a dispatch takes the loop
\* straight back to the computation of the next wait and adds one invocation
\* in progress; whatever the number of invocations in progress, the loop can
\* compute, take an expired timer and take a pending cancel signal.
C17_LoopNeverWaitsForCallback ==
    /\ [][fired' # fired =>
             (lpc' = "compute" /\ running' = running + 1)]_vars
    /\ [](running <= fired)
    /\ [](lpc \in {"none", "compute", "select", "stopped"})
    /\ [](lpc = "compute" => ENABLED LoopCompute)
    /\ []((lpc = "select" /\ TimerReady /\ fired < MaxFired)
            => ENABLED SelectCase("timer"))
    /\ []((lpc = "select" /\ job.Quit # "nil" /\ quit > 0)
            => ENABLED SelectCase("quit"))

\* two invocations in progress, none has ever returned, and the loop has
\* gone on to observe the cancel signal
C17_Witness ==
    /\ running >= 2
    /\ running = fired
    /\ stopCause = "cancel" /\ lpc = "stopped"

\* the goroutines running the loop of the Job
ActiveLoops ==
    (IF lpc \in {"compute", "select"} THEN 1 ELSE 0)
        + (IF lpc2 \in {"compute", "select"} THEN 1 ELSE 0)

\* C18: whatever calls of Run and whatever cancel and skip-wait sends have
\* been made, at most one goroutine runs the loop of the Job.
C18_AtMostOneLoop == ActiveLoops <= 1

\* C19: once the loop of the Job has returned, no later operation on the Job
\* has a goroutine run the loop again, and the callback is not dispatched
\* any more.
C19_StoppedIsTerminal ==
    [][(lpc = "stopped" /\ ActiveLoops = 0) =>
         (ActiveLoops' = 0 /\ fired' = fired)]_vars

\* where the holder can send on job.Quit (Quit chan bool), a trigger is
\* followed by the loop's return; holds under SpecFair
CancelStopsLoopWhereSendable ==
    (QuitSendable /\ cancelReqs > 0) ~> (lpc = "stopped")

----------------------------------------------------------------------------
(* nextRun as a function of the schedule value and the clock *)

\* counts and units of the recurrent values tried
Counts == {-5, 0, 1, 2, 5, 300, 600, 131072}
Periods == {0, Second, Minute, Hour}
HourValues == {0, 8, 12, 23}
MinValues == {0, 30, 59}
SecValues == {0, 59}
TimesOfDay ==
    {daily(h, m, s) : h \in HourValues, m \in MinValues, s \in SecValues}

Schedules ==
    {recurrent(u, p) : u \in Counts, p \in Periods}
        \cup TimesOfDay
        \cup {weekly(wd, dd) : wd \in Weekdays, dd \in TimesOfDay}

\* the clock's starting points: a day of the first week or the last day of a
\* month, at a time of day on, just before or just after a configured time
StartDays == (0..MaxDay) \cup {30, 58, 364}
StartTimes == {0, 8 * Hour, 8 * Hour + 30 * Minute, 8 * Hour + 30 * Minute + 1,
               12 * Hour + 59 * Minute + 59, DaySeconds - 1}
Instants == {dd * DaySeconds + tt : dd \in StartDays, tt \in StartTimes}

InitNextRun ==
    /\ sched \in Schedules
    /\ now \in Instants
    /\ res = NoResult
    /\ at = 0
    /\ prev = [res |-> NoResult, at |-> 0]
    /\ calls = 0
    /\ elapsed = 0
    /\ build = "scheduler.go"
    /\ job = ZeroJob
    /\ bpc = "none"
    /\ chain = <<>>
    /\ NoLoop

\* nextRun with a pointer receiver that uses its schedule up: an interval is
\* good for one call
M_receiver(s) == IF s.kind = "recurrent" THEN [s EXCEPT !.units = 0] ELSE s

\* the caller's schedule value after a call of nextRun: the three methods
\* have value receivers (r recurrent, d daily, w weekly) and work on a copy
receiver(s) == s

\* one call of sched.nextRun()
CallNextRun ==
    /\ calls < MaxCalls
    /\ res' = nextRun(sched, now)
    /\ at' = now
    /\ prev' = [res |-> res, at |-> at]
    /\ sched' = receiver(sched)
    /\ calls' = calls + 1
    /\ UNCHANGED <<now, elapsed, jobVars, loopVars, chanVars, histVars, run2Vars, stale>>

\* the clock moves on between two calls
Elapse ==
    /\ elapsed < MaxElapse
    /\ \E dt \in {1, 30 * Minute, DaySeconds} :
          /\ now + dt < DaysInYear * DaySeconds
          /\ now' = now + dt
    /\ elapsed' = elapsed + 1
    /\ UNCHANGED <<sched, res, at, prev, calls, jobVars, loopVars, chanVars, histVars,
                   run2Vars, stale>>

NextNextRun == CallNextRun \/ Elapse

SpecNextRun == InitNextRun /\ [][NextNextRun]_vars

----------------------------------------------------------------------------
(* The schedule kinds: properties *)

\* the last call's receiver was of this kind
Called(kind) == calls > 0 /\ sched.kind = kind

\* local midnight of the day of instant t, and a daily value's time of day
Midnight(t) == (t \div DaySeconds) * DaySeconds
TimeOfDay(d) == d.hour * 3600 + d.min * 60 + d.sec

\* C6: a recurrent value with count > 0 and unit > 0 makes nextRun succeed
\* with exactly count * unit, the product of the two numbers.
C6_IntervalIsProduct ==
    (Called("recurrent") /\ sched.units > 0 /\ sched.period > 0)
        => (res.err = NoError /\ res.dur = sched.units * sched.period)

\* C7: a recurrent value with count = 0 or unit = 0 makes nextRun fail with
\* the zero-time error and a zero duration, at the first call and at every
\* later one, whatever the clock shows.
C7_ZeroIntervalFails ==
    (Called("recurrent") /\ (sched.units = 0 \/ sched.period = 0))
        => (res.err = ErrZeroTime /\ res.dur = 0)

C7_Witness ==
    /\ Called("recurrent") /\ calls >= 2 /\ elapsed >= 1
    /\ sched.units > 0 /\ sched.period = 0
    /\ res.err = ErrZeroTime

\* C15: whatever the schedule value and the instant, a call of nextRun that
\* succeeds returns a duration that is not negative.
C15_NextRunNonNegative ==
    (calls > 0 /\ res.err = NoError) => res.dur >= 0

C8_DailyNextOccurrence ==
    Called("daily") =>
        LET today == Midnight(at) + TimeOfDay(sched)
        IN  /\ res.err = NoError
            /\ res.dur = IF today > at THEN today - at
                                       ELSE today + DaySeconds - at
            /\ res.dur > 0
            /\ res.dur <= DaySeconds

C8_Witness ==
    /\ Called("daily")
    /\ at = Midnight(at) + TimeOfDay(sched)
    /\ DateOf(at).day = 31
    /\ res.dur = DaySeconds

\* the earliest instant strictly after t on weekday wd at time of day tod
NextOnWeekday(wd, tod, t) ==
    LET cands == {Midnight(t) + k * DaySeconds + tod : k \in 0..8}
        ok == {c \in cands : c > t /\ WeekdayOf(c) = wd}
    IN  CHOOSE c \in ok : \A c2 \in ok : c <= c2

\* C9: a weekly value, any weekday, its time in range: nextRun never fails and
\* returns the duration from now to the earliest instant strictly after now
\* that is on the target weekday at the configured time, at most 7 days away.
C9_WeeklyNextOccurrence ==
    Called("weekly") =>
        /\ res.err = NoError
        /\ res.dur = NextOnWeekday(sched.day, TimeOfDay(sched.d), at) - at
        /\ res.dur > 0
        /\ res.dur <= 7 * DaySeconds

C9_Witness ==
    /\ Called("weekly")
    /\ WeekdayOf(at) = sched.day
    /\ at = Midnight(at) + TimeOfDay(sched.d)
    /\ res.dur = 7 * DaySeconds

====
